---- MODULE Spec2Model ----
(***************************************************************************)
(* i3-autonamer (src/src/main.rs): a watcher task pulls window-manager     *)
(* events and, for qualifying ones, spawns a replan task and joins it; a   *)
(* replan sends GetTree and then one RunCommand per rename command through *)
(* a bounded mpsc channel to the command actor task, which owns the second *)
(* connection and services the requests one at a time, answering each on   *)
(* its oneshot reply channel.                                              *)
(***************************************************************************)
EXTENDS Integers, Sequences, FiniteSets, TLC

(***************************************************************************)
(* Bounds of the model.                                                    *)
(***************************************************************************)
\* events the window manager's stream delivers before it can only end or fail
MaxEvents == 2

\* mpsc::channel::<Command>(10)
ChannelCapacity == 10

(***************************************************************************)
(* Option<T>: None is the empty sequence, Some(v) the one-element one.     *)
(***************************************************************************)
None == <<>>

Some(v) == <<v>>

is_some(o) == o # None

unwrap_value(o) == o[1]

(***************************************************************************)
(* reply::Node, with the fields the program reads.                         *)
(***************************************************************************)
Node(t, name, num, wp, nodes) ==
    [node_type |-> t, name |-> name, num |-> num, window_properties |-> wp, nodes |-> nodes]

WindowProps(class) == Some([class |-> class])

\* a window-backed leaf container of the given class
Window(class) == Node("Con", None, None, WindowProps(Some(class)), <<>>)

\* a leaf container whose window has no class, and one with no window properties
WindowNoClass == Node("Con", None, None, WindowProps(None), <<>>)

EmptyCon == Node("Con", None, None, None, <<>>)

SplitCon(children) == Node("Con", None, None, None, children)

Workspace(num, name, children) == Node("Workspace", name, num, None, children)

(***************************************************************************)
(* The tree navigation functions.                                          *)
(***************************************************************************)
get_nodes_of_type(node, node_type) ==
    SelectSeq(node.nodes, LAMBDA n : n.node_type = node_type)

RECURSIVE get_leaf_content_nodes(_)
RECURSIVE leaf_flat_map(_)
\* the flat_map closure of get_leaf_content_nodes over a sequence of Con nodes
leaf_flat_map(ns) ==
    IF ns = <<>> THEN <<>>
    ELSE (IF Len(Head(ns).nodes) = 0 THEN <<Head(ns)>> ELSE get_leaf_content_nodes(Head(ns)))
         \o leaf_flat_map(Tail(ns))

get_leaf_content_nodes(node) == leaf_flat_map(get_nodes_of_type(node, "Con"))

RECURSIVE flatten_of_type(_, _)
\* .map(|n| get_nodes_of_type(n, t)).flatten()
flatten_of_type(ns, node_type) ==
    IF ns = <<>> THEN <<>>
    ELSE get_nodes_of_type(Head(ns), node_type) \o flatten_of_type(Tail(ns), node_type)

\* assert!(root.node_type == NodeType::Root)
workspace_nodes_panics(root) == root.node_type # "Root"

get_workspace_nodes(root) ==
    flatten_of_type(flatten_of_type(get_nodes_of_type(root, "Output"), "Con"), "Workspace")

(***************************************************************************)
(* The lookup table and the workspace name.                                *)
(***************************************************************************)
lookup == ("Alacritty" :> "A") @@ ("Joplin" :> "J") @@ ("Firefox" :> "F") @@ ("Code" :> "C")

\* the filter_map closure: the label of a leaf, if it has a class the table knows
leaf_label(n) ==
    IF is_some(n.window_properties)
       /\ is_some(unwrap_value(n.window_properties).class)
       /\ unwrap_value(unwrap_value(n.window_properties).class) \in DOMAIN lookup
    THEN Some(lookup[unwrap_value(unwrap_value(n.window_properties).class)])
    ELSE None

\* .collect::<HashSet<_>>()
label_set(workspace_node) ==
    LET leaves == get_leaf_content_nodes(workspace_node)
    IN  {unwrap_value(leaf_label(leaves[i])) :
            i \in {j \in 1..Len(leaves) : is_some(leaf_label(leaves[j]))}}

\* the orders in which a HashSet's into_iter may yield its elements
hash_set_orders(S) ==
    {s \in [1..Cardinality(S) -> S] : \A i, j \in 1..Cardinality(S) : i # j => s[i] # s[j]}

RECURSIVE join(_, _)
join(strs, sep) ==
    IF Len(strs) = 0 THEN ""
    ELSE IF Len(strs) = 1 THEN strs[1]
    ELSE strs[1] \o sep \o join(Tail(strs), sep)

\* get_workspace_name collecting into a Vec instead of a HashSet: every label
\* found, in the order of the leaves
get_workspace_name_no_dedup(workspace_node) ==
    LET leaves == SelectSeq(get_leaf_content_nodes(workspace_node),
                            LAMBDA n : is_some(leaf_label(n)))
    IN  {join([i \in 1..Len(leaves) |-> unwrap_value(leaf_label(leaves[i]))], " ")}

\* the strings get_workspace_name may return: one per iteration order of the set
get_workspace_name(workspace_node) ==
    {join(s, " ") : s \in hash_set_orders(label_set(workspace_node))}

(***************************************************************************)
(* The rename commands.                                                    *)
(***************************************************************************)
digit_str(d) == <<"0", "1", "2", "3", "4", "5", "6", "7", "8", "9">>[d + 1]

RECURSIVE format_num(_)
\* format!("{}", num) of a non-negative i32
format_num(n) == IF n < 10 THEN digit_str(n) ELSE format_num(n \div 10) \o digit_str(n % 10)

\* a guard that lets workspace 0 through: if num < 0 { return None; }
is_numbered_nonneg(workspace_node) ==
    is_some(workspace_node.num) /\ ~(unwrap_value(workspace_node.num) < 0)

\* let num = workspace_node.num?; if num < 1 { return None; }
is_numbered(workspace_node) ==
    is_some(workspace_node.num) /\ ~(unwrap_value(workspace_node.num) < 1)

full_name(num, name) ==
    IF Len(name) > 0 THEN format_num(num) \o ": " \o name ELSE format_num(num)

rename_command(old, new) == "rename workspace \"" \o old \o "\" to \"" \o new \o "\""

\* the commands the filter_map closure may yield for one numbered workspace
workspace_commands(workspace_node) ==
    {rename_command(unwrap_value(workspace_node.name),
                    full_name(unwrap_value(workspace_node.num), name)) :
        name \in get_workspace_name(workspace_node)}

RECURSIVE collect_commands(_)
collect_commands(wss) ==
    IF wss = <<>> THEN {<<>>}
    ELSE IF ~is_numbered(Head(wss)) THEN collect_commands(Tail(wss))
    ELSE {<<c>> \o rest : c \in workspace_commands(Head(wss)), rest \in collect_commands(Tail(wss))}

\* workspace_node.name.clone().unwrap() on a numbered workspace without a name
unwrap_panics(root) ==
    \E i \in 1..Len(get_workspace_nodes(root)) :
        /\ is_numbered(get_workspace_nodes(root)[i])
        /\ ~is_some(get_workspace_nodes(root)[i].name)

rename_commands_panics(tree) == workspace_nodes_panics(tree) \/ unwrap_panics(tree)

\* the outcomes of get_workspace_rename_commands: a panic of the calling task, or
\* Ok(commands) for one of the orders the label sets may iterate in
get_workspace_rename_commands(tree) ==
    IF rename_commands_panics(tree) THEN {[kind |-> "panic", cmds |-> <<>>]}
    ELSE {[kind |-> "ok", cmds |-> c] : c \in collect_commands(get_workspace_nodes(tree))}

(***************************************************************************)
(* The tree snapshots the window manager may answer GetTree with.          *)
(***************************************************************************)
RootOf(workspaces) ==
    Node("Root", Some("root"), None, None,
         <<Node("Output", Some("eDP-1"), None, None,
                <<Node("Dockarea", Some("topdock"), None, None, <<>>),
                  Node("Con", Some("content"), None, None, workspaces)>>)>>)

\* one numbered workspace without windows
TreeEmptyWorkspace == RootOf(<<Workspace(Some(1), Some("1"), <<>>)>>)

\* two numbered workspaces; the second holds two distinct labelled classes
TreeTwoWorkspaces ==
    RootOf(<<Workspace(Some(1), Some("1"), <<Window("Firefox")>>),
             Workspace(Some(2), Some("2: A"),
                       <<SplitCon(<<Window("Alacritty"), Window("Code")>>),
                         Window("Alacritty"), WindowNoClass>>)>>)

\* no numbered workspace at all
TreeUnnumbered == RootOf(<<Workspace(Some(-1), Some("__i3_scratch"), <<Window("Joplin")>>)>>)

\* a tree whose root is not of type Root
TreeNotRoot == Node("Output", Some("eDP-1"), None, None, <<>>)

\* a numbered workspace whose name is absent
TreeNoName == RootOf(<<Workspace(Some(3), None, <<EmptyCon>>)>>)

SnapshotTrees == {TreeEmptyWorkspace, TreeTwoWorkspaces, TreeUnnumbered, TreeNotRoot, TreeNoName}

(***************************************************************************)
(* The events of the stream (tokio_i3ipc::event::Event) and the match of   *)
(* the watcher's loop.                                                     *)
(***************************************************************************)
WindowChanges ==
    {"New", "Close", "Focus", "Title", "FullscreenMode", "Move", "Floating", "Urgent", "Mark"}

WorkspaceChanges ==
    {"Focus", "Init", "Empty", "Urgent", "Reload", "Rename", "Restored", "Move"}

OtherEventTypes == {"Output", "Mode", "BarConfig", "Binding", "Shutdown", "Tick"}

Events ==
    {[type |-> "Window", change |-> c] : c \in WindowChanges}
    \cup {[type |-> "Workspace", change |-> c] : c \in WorkspaceChanges}
    \cup {[type |-> t, change |-> "Unspecified"] : t \in OtherEventTypes}

\* a match whose window arm has lost its inner match: every window change,
\* Focus and Title included, calls update_workspace_names
triggers_replan_any_window(e) ==
    \/ e.type = "Window"
    \/ e.type = "Workspace" /\ e.change \in {"Init", "Empty", "Move"}

\* whether the match on the event reaches a call of update_workspace_names
triggers_replan(e) ==
    \/ e.type = "Window" /\ e.change \in {"New", "Close", "Move", "Floating"}
    \/ e.type = "Workspace" /\ e.change \in {"Init", "Empty", "Move"}

(***************************************************************************)
(* The state of the program.                                               *)
(***************************************************************************)
VARIABLES
    wpc,        \* position of the watcher task (s_handle)
    wresult,    \* the watcher task's result, once it has finished
    nevents,    \* events the stream has delivered
    ntriggers,  \* replan tasks spawned by update_workspace_names
    replan,     \* the replan tasks: position, commands, command index
    apc,        \* position of the actor task (r_handle)
    aresult,    \* the actor task's result, once it has finished
    cur,        \* the command the actor is servicing (Option)
    conn,       \* the actor's connection: "none", "up" or "broken"
    queue,      \* the commands in the mpsc channel, oldest first
    resp,       \* per replan task, the oneshot channel of its outstanding request
    main,       \* main: "running", or how it returned
    tree,       \* the layout tree a planner function is applied to (PlanSpec), and
                \* the window manager's layout tree (ConvergeSpec); None otherwise
    plan        \* the planner function applied and what it returned (PlanSpec)

vars ==
    <<wpc, wresult, nevents, ntriggers, replan, apc, aresult, cur, conn, queue, resp, main,
      tree, plan>>

watcher_vars == <<wpc, wresult, nevents>>

actor_vars == <<apc, aresult, cur, conn>>

Replans == 1..MaxEvents

\* a replan task that has not been spawned.  k numbers the task's requests: 0 is
\* its GetTree, k >= 1 the RunCommand of its k-th command; sent lists the
\* payloads it has put into the channel
Unborn == [pc |-> "unborn", cmds |-> <<>>, k |-> 0, sent |-> <<>>, result |-> "none"]

\* no oneshot channel: none created yet, or the Receiver has been consumed
NoChannel == [st |-> "none", seq |-> 0, val |-> None, sends |-> 0]

\* oneshot::channel() of the task's request number seq: nothing sent yet
EmptyChannel(seq) == [st |-> "empty", seq |-> seq, val |-> None, sends |-> 0]

\* the state of the tasks, the channel and main after line 132
ProgramInit ==
    /\ wpc = "connect"
    /\ wresult = "none"
    /\ nevents = 0
    /\ ntriggers = 0
    /\ replan = [r \in Replans |-> Unborn]
    /\ apc = "connect"
    /\ aresult = "none"
    /\ cur = None
    /\ conn = "none"
    /\ queue = <<>>
    /\ resp = [r \in Replans |-> NoChannel]
    /\ main = "running"

\* no planner function has been applied
NotApplied == [fn |-> "none"]

Init ==
    /\ ProgramInit
    /\ tree = None
    /\ plan = NotApplied

(***************************************************************************)
(* The mpsc channel: its handles, send and recv.                           *)
(***************************************************************************)
\* a replan task (with the task it spawns per command) is alive and holds a Sender
replan_alive(r) == replan[r].pc \notin {"unborn", "done"}

\* a Sender that is never dropped: main keeps tx and hands the watcher a clone
senders_alive_leaked == TRUE

\* some Sender exists: the watcher's tx, a replan's tx2 or a command task's tx3
senders_alive == wpc # "done" \/ \E r \in Replans : replan_alive(r)

\* the Receiver exists: the actor task owns rx until it finishes
receiver_alive == apc # "done"

\* send returns Err at once when the Receiver is gone
send_fails == ~receiver_alive

\* send waits for a permit while the channel is full
send_ready == send_fails \/ Len(queue) < ChannelCapacity

\* a recv that hands out the newest command instead of the oldest
recv_newest(q) == [cmd |-> q[Len(q)], rest |-> SubSeq(q, 1, Len(q) - 1)]

\* rx.recv(): the oldest command and the commands left in the channel
recv(q) == [cmd |-> Head(q), rest |-> Tail(q)]

\* a recv that returns None as soon as the channel is empty (try_recv-like)
recv_none_when_empty == queue = <<>>

\* recv returns None: the channel is empty and every Sender has been dropped
recv_none == queue = <<>> /\ ~senders_alive

GetTree(r) == [kind |-> "GetTree", payload |-> "", owner |-> r, seq |-> 0]

RunCommand(r, k, payload) == [kind |-> "RunCommand", payload |-> payload, owner |-> r, seq |-> k]

\* tx.send(cmd) that succeeds; resp of the command is the Sender of the oneshot
\* channel whose Receiver the sending task keeps
Enqueue(cmd) ==
    /\ queue' = Append(queue, cmd)
    /\ resp' = [resp EXCEPT ![cmd.owner] = EmptyChannel(cmd.seq)]

\* whether the Responder of cmd still has its Receiver
responder_open(rs, cmd) == rs[cmd.owner].st = "empty" /\ rs[cmd.owner].seq = cmd.seq

\* dropping the Receiver of the mpsc channel drops the commands still in it,
\* and with each its Responder: the oneshot channel closes without a value
drop_queued(rs, q) ==
    [r \in Replans |->
        IF \E j \in 1..Len(q) : q[j].owner = r /\ responder_open(rs, q[j])
        THEN [rs[r] EXCEPT !.st = "closed"]
        ELSE rs[r]]

(***************************************************************************)
(* The watcher task (s_handle).                                            *)
(***************************************************************************)
WatcherFinish(result) ==
    /\ wpc' = "done"
    /\ wresult' = result

\* I3::connect().await?
WatcherConnect ==
    /\ wpc = "connect"
    /\ \/ wpc' = "subscribe" /\ UNCHANGED wresult
       \/ WatcherFinish("ConnectFault")
    /\ UNCHANGED <<nevents, ntriggers, replan, actor_vars, queue, resp, main, tree, plan>>

\* i3.subscribe([...]).await?
WatcherSubscribe ==
    /\ wpc = "subscribe"
    /\ \/ wpc' = "next" /\ UNCHANGED wresult
       \/ WatcherFinish("SubscribeFault")
    /\ UNCHANGED <<nevents, ntriggers, replan, actor_vars, queue, resp, main, tree, plan>>

\* event_listener.next().await yields None: the loop ends, the task returns Ok(())
WatcherStreamEnd ==
    /\ wpc = "next"
    /\ WatcherFinish("Ok")
    /\ UNCHANGED <<nevents, ntriggers, replan, actor_vars, queue, resp, main, tree, plan>>

\* event_listener.next().await yields Some(Err(_)): event? returns the error
WatcherStreamError ==
    /\ wpc = "next"
    /\ WatcherFinish("StreamFault")
    /\ UNCHANGED <<nevents, ntriggers, replan, actor_vars, queue, resp, main, tree, plan>>

\* a debounced update_workspace_names: only the first trigger spawns a replan
SpawnReplanOnce ==
    IF ntriggers = 0
    THEN /\ ntriggers' = 1
         /\ replan' = [replan EXCEPT ![1] = [Unborn EXCEPT !.pc = "send_tree"]]
    ELSE UNCHANGED <<ntriggers, replan>>

\* update_workspace_names(&tx): tokio::spawn of the replan task
SpawnReplan ==
    /\ ntriggers' = ntriggers + 1
    /\ replan' = [replan EXCEPT ![ntriggers + 1] = [Unborn EXCEPT !.pc = "send_tree"]]

\* event_listener.next().await yields Some(Ok(e)) and the match on e runs: a
\* qualifying change spawns a replan and leaves the watcher at `after`; any
\* other event takes the loop back to the stream
HandleEvent(e, after) ==
    /\ wpc = "next"
    /\ nevents < MaxEvents
    /\ nevents' = nevents + 1
    /\ IF triggers_replan(e)
       THEN SpawnReplan /\ wpc' = after
       ELSE UNCHANGED <<wpc, ntriggers, replan>>
    /\ UNCHANGED <<wresult, actor_vars, queue, resp, main, tree, plan>>

\* update_workspace_names(&tx); with the JoinHandle dropped: fire and forget
WatcherEventForgets(e) == HandleEvent(e, "next")

\* update_workspace_names(&tx).await: the watcher awaits the replan's JoinHandle
WatcherEvent(e) == HandleEvent(e, "await_replan")

\* update_workspace_names(&tx).await??: the watcher propagates the JoinError of
\* a panicked replan and the Err of a failed one, and goes on after an Ok
WatcherJoinPropagates ==
    /\ wpc = "await_replan"
    /\ replan[ntriggers].pc = "done"
    /\ IF replan[ntriggers].result = "Ok"
       THEN wpc' = "next" /\ UNCHANGED wresult
       ELSE WatcherFinish(replan[ntriggers].result)
    /\ UNCHANGED <<nevents, ntriggers, replan, actor_vars, queue, resp, main, tree, plan>>

\* the await of the JoinHandle returns once the replan task has finished, and
\* the task's result (Ok, Err or the JoinError of a panic) is discarded
WatcherJoin ==
    /\ wpc = "await_replan"
    /\ replan[ntriggers].pc = "done"
    /\ wpc' = "next"
    /\ UNCHANGED <<wresult, nevents, ntriggers, replan, actor_vars, queue, resp, main, tree, plan>>

(***************************************************************************)
(* A replan task (the task update_workspace_names spawns), r its ordinal.  *)
(***************************************************************************)
\* the task ends: its locals are dropped, its result stays for the JoinHandle
ReplanFinish(r, result) ==
    replan' = [replan EXCEPT ![r] = [Unborn EXCEPT !.pc = "done", !.result = result]]

\* resp_rx.await has returned: the oneshot Receiver is consumed
consume(rs, r) == [rs EXCEPT ![r] = NoChannel]

\* tx2.send(Command::GetTree { resp }).await?
ReplanSendTree(r) ==
    /\ replan[r].pc = "send_tree"
    /\ send_ready
    /\ IF send_fails
       THEN ReplanFinish(r, "SendError") /\ UNCHANGED <<queue, resp>>
       ELSE /\ Enqueue(GetTree(r))
            /\ replan' = [replan EXCEPT ![r].pc = "wait_tree"]
    /\ UNCHANGED <<watcher_vars, ntriggers, actor_vars, main, tree, plan>>

\* a for loop that returns Ok(()) after its first command
AfterCommandReturns(r) == ReplanFinish(r, "Ok")

\* one command is done: the for loop goes to the next one, or the task returns Ok(())
AfterCommand(r) ==
    IF replan[r].k < Len(replan[r].cmds)
    THEN replan' = [replan EXCEPT ![r].pc = "exec_send", ![r].k = @ + 1]
    ELSE ReplanFinish(r, "Ok")

\* let tree = resp_rx.await?; get_workspace_rename_commands(&tree?).await?
ReplanRecvTree(r) ==
    /\ replan[r].pc = "wait_tree"
    /\ resp[r].st \in {"ok", "err", "closed"}
    /\ resp' = consume(resp, r)
    /\ CASE resp[r].st = "closed" -> ReplanFinish(r, "RecvError")
         [] resp[r].st = "err" -> ReplanFinish(r, "IoError")
         [] OTHER ->
              \E out \in get_workspace_rename_commands(unwrap_value(resp[r].val)) :
                  IF out.kind = "panic" THEN ReplanFinish(r, "Panic")
                  ELSE IF out.cmds = <<>> THEN ReplanFinish(r, "Ok")
                  ELSE replan' = [replan EXCEPT ![r].pc = "exec_send", ![r].cmds = out.cmds,
                                                ![r].k = 1]
    /\ UNCHANGED <<watcher_vars, ntriggers, actor_vars, queue, main, tree, plan>>

\* the task spawned for one command: tx3.send(Command::RunCommand {..}).await; when
\* the send fails it returns, and the replan goes on with the next command
ReplanSendCommand(r) ==
    /\ replan[r].pc = "exec_send"
    /\ send_ready
    /\ IF send_fails
       THEN AfterCommand(r) /\ UNCHANGED <<queue, resp>>
       ELSE /\ Enqueue(RunCommand(r, replan[r].k, replan[r].cmds[replan[r].k]))
            /\ replan' = [replan EXCEPT ![r].pc = "exec_wait",
                                        ![r].sent = Append(@, replan[r].cmds[replan[r].k])]
    /\ UNCHANGED <<watcher_vars, ntriggers, actor_vars, main, tree, plan>>

\* a command task that propagates a failed reply (resp_rx.await??), ending the
\* replan with the error
ReplanRecvCommandChecked(r) ==
    /\ replan[r].pc = "exec_wait"
    /\ resp[r].st \in {"ok", "err", "closed"}
    /\ resp' = consume(resp, r)
    /\ IF resp[r].st = "ok" THEN AfterCommand(r) ELSE ReplanFinish(r, "IoError")
    /\ UNCHANGED <<watcher_vars, ntriggers, actor_vars, queue, main, tree, plan>>

\* let _ = resp_rx.await; whatever the reply, the command task ends and the
\* replan task's await of it returns
ReplanRecvCommand(r) ==
    /\ replan[r].pc = "exec_wait"
    /\ resp[r].st \in {"ok", "err", "closed"}
    /\ resp' = consume(resp, r)
    /\ AfterCommand(r)
    /\ UNCHANGED <<watcher_vars, ntriggers, actor_vars, queue, main, tree, plan>>

(***************************************************************************)
(* The actor task (r_handle) and the window manager's answers.             *)
(***************************************************************************)
Ok(v) == [ok |-> TRUE, val |-> Some(v)]

Err == [ok |-> FALSE, val |-> None]

\* what i3.get_tree() / i3.run_command(payload) may return on the connection, and
\* the state the call leaves the connection in: on a live connection the call
\* succeeds, fails and leaves the connection usable, or fails because the
\* connection broke; on a broken connection it fails
call_results(kind, c) ==
    IF c = "up"
    THEN (IF kind = "GetTree"
          THEN {[res |-> Ok(t), conn |-> "up"] : t \in SnapshotTrees}
          ELSE {[res |-> Ok(<<[success |-> b]>>), conn |-> "up"] : b \in BOOLEAN})
         \cup {[res |-> Err, conn |-> "up"], [res |-> Err, conn |-> "broken"]}
    ELSE {[res |-> Err, conn |-> "broken"]}

\* let _ = resp.send(res): the value goes into the oneshot channel, unless its
\* Receiver is gone
respond(rs, cmd, res) ==
    IF responder_open(rs, cmd)
    THEN [rs EXCEPT ![cmd.owner].st = IF res.ok THEN "ok" ELSE "err",
                    ![cmd.owner].val = res.val,
                    ![cmd.owner].sends = @ + 1]
    ELSE rs

\* let mut i3 = I3::connect().await?; a failure ends the task, which drops rx
ActorConnect ==
    /\ apc = "connect"
    /\ \/ /\ apc' = "recv"
          /\ conn' = "up"
          /\ UNCHANGED <<aresult, queue, resp>>
       \/ /\ apc' = "done"
          /\ aresult' = "ConnectFault"
          /\ resp' = drop_queued(resp, queue)
          /\ queue' = <<>>
          /\ UNCHANGED conn
    /\ UNCHANGED <<watcher_vars, ntriggers, replan, cur, main, tree, plan>>

\* rx.recv().await yields Some(cmd): the actor issues the command's protocol call
ActorRecv ==
    /\ apc = "recv"
    /\ queue # <<>>
    /\ cur' = Some(recv(queue).cmd)
    /\ queue' = recv(queue).rest
    /\ apc' = "call"
    /\ UNCHANGED <<watcher_vars, ntriggers, replan, aresult, conn, resp, main, tree, plan>>

\* an actor that propagates a failed call with `?`: the task ends with the
\* error, dropping the Responder and rx with the commands still queued
ActorReplyPropagates ==
    /\ apc = "call"
    /\ \E out \in call_results(unwrap_value(cur).kind, conn) :
          /\ conn' = out.conn
          /\ IF out.res.ok
             THEN /\ resp' = respond(resp, unwrap_value(cur), out.res)
                  /\ apc' = "recv"
                  /\ UNCHANGED <<aresult, queue>>
             ELSE /\ resp' = drop_queued(resp, <<unwrap_value(cur)>> \o queue)
                  /\ apc' = "done"
                  /\ aresult' = "IoFault"
                  /\ queue' = <<>>
    /\ cur' = None
    /\ UNCHANGED <<watcher_vars, ntriggers, replan, main, tree, plan>>

\* the protocol call returns and its result is sent to the command's Responder;
\* the loop goes back to rx.recv()
ActorReply ==
    /\ apc = "call"
    /\ \E out \in call_results(unwrap_value(cur).kind, conn) :
          /\ resp' = respond(resp, unwrap_value(cur), out.res)
          /\ conn' = out.conn
    /\ cur' = None
    /\ apc' = "recv"
    /\ UNCHANGED <<watcher_vars, ntriggers, replan, aresult, queue, main, tree, plan>>

\* rx.recv().await yields None: the loop ends and the task returns Ok(())
ActorRecvNone ==
    /\ apc = "recv"
    /\ recv_none
    /\ apc' = "done"
    /\ aresult' = "Ok"
    /\ UNCHANGED <<watcher_vars, ntriggers, replan, cur, conn, queue, resp, main, tree, plan>>

(***************************************************************************)
(* main: try_join! of the two tasks, then send.and(recv)?                  *)
(***************************************************************************)
MainJoin ==
    /\ main = "running"
    /\ wpc = "done"
    /\ apc = "done"
    /\ main' = IF wresult = "Ok" /\ aresult = "Ok" THEN "exit_ok" ELSE "exit_err"
    /\ UNCHANGED <<watcher_vars, ntriggers, replan, actor_vars, queue, resp, tree, plan>>

Next ==
    \/ WatcherConnect
    \/ WatcherSubscribe
    \/ \E e \in Events : WatcherEvent(e)
    \/ WatcherStreamEnd
    \/ WatcherStreamError
    \/ WatcherJoin
    \/ \E r \in Replans : ReplanSendTree(r)
    \/ \E r \in Replans : ReplanRecvTree(r)
    \/ \E r \in Replans : ReplanSendCommand(r)
    \/ \E r \in Replans : ReplanRecvCommand(r)
    \/ ActorConnect
    \/ ActorRecv
    \/ ActorReply
    \/ ActorRecvNone
    \/ MainJoin

Spec == Init /\ [][Next]_vars

(***************************************************************************)
(* LiveSpec: the program under the fairness its scheduling gives.  Every   *)
(* spawned task that can take a step is polled by the runtime, and a       *)
(* connect, a subscribe and a protocol call return; the event stream owes  *)
(* nothing: it may stay silent for ever.                                   *)
(***************************************************************************)
Fairness ==
    /\ WF_vars(WatcherConnect)
    /\ WF_vars(WatcherSubscribe)
    /\ WF_vars(WatcherJoin)
    /\ \A r \in Replans :
          /\ WF_vars(ReplanSendTree(r))
          /\ WF_vars(ReplanRecvTree(r))
          /\ WF_vars(ReplanSendCommand(r))
          /\ WF_vars(ReplanRecvCommand(r))
    /\ WF_vars(ActorConnect)
    /\ WF_vars(ActorRecv)
    /\ WF_vars(ActorReply)
    /\ WF_vars(ActorRecvNone)
    /\ WF_vars(MainJoin)

LiveSpec == Init /\ [][Next]_vars /\ Fairness

(***************************************************************************)
(* ActorSpec: the actor and the replan tasks under a caller that drops the *)
(* JoinHandle update_workspace_names returns instead of awaiting it, so    *)
(* that the replans of successive triggers run as concurrent producers of  *)
(* the channel.  The program's own watcher awaits every handle, which      *)
(* keeps it to one request at a time; statements about the actor for any   *)
(* number of producers are checked here.                                   *)
(***************************************************************************)
WatcherEventDetached(e) == HandleEvent(e, "next")

ActorNext ==
    \/ WatcherConnect
    \/ WatcherSubscribe
    \/ \E e \in Events : WatcherEventDetached(e)
    \/ WatcherStreamEnd
    \/ WatcherStreamError
    \/ \E r \in Replans : ReplanSendTree(r)
    \/ \E r \in Replans : ReplanRecvTree(r)
    \/ \E r \in Replans : ReplanSendCommand(r)
    \/ \E r \in Replans : ReplanRecvCommand(r)
    \/ ActorConnect
    \/ ActorRecv
    \/ ActorReply
    \/ ActorRecvNone

ActorSpec == Init /\ [][ActorNext]_vars

(***************************************************************************)
(* C1.  The actor executes the protocol calls one at a time and in FIFO    *)
(* order, for any number of producer tasks: a call is in flight exactly    *)
(* while the actor is between recv and the reply; the actor starts a call  *)
(* only when none is in flight, and the call it starts is that of the      *)
(* oldest command in the channel; the channel itself only grows at its     *)
(* tail (a send), shrinks at its head (the recv) or is dropped whole with  *)
(* the Receiver, so that the order of the calls is the order of the sends. *)
(***************************************************************************)
\* the step starts a protocol call
StartsCall == cur' # cur /\ cur' # None

\* the step is a send into the channel: the queue grows by one at its tail
IsSend == Len(queue') = Len(queue) + 1 /\ SubSeq(queue', 1, Len(queue)) = queue

C1_SerialFifo ==
    /\ [](cur # None <=> apc = "call")
    /\ [][StartsCall => /\ cur = None
                        /\ queue # <<>>
                        /\ cur' = Some(Head(queue))
                        /\ queue' = Tail(queue)]_vars
    /\ [][queue' # queue => \/ IsSend
                            \/ StartsCall /\ queue' = Tail(queue)
                            \/ apc' = "done" /\ queue' = <<>>]_vars

\* two producers have a command each in the channel, the later one a RunCommand
\* (so the actor has already serviced that producer's GetTree)
C1_Witness ==
    /\ Len(queue) = 2
    /\ queue[1].owner # queue[2].owner
    /\ queue[2].kind = "RunCommand"
    /\ apc = "recv"

(***************************************************************************)
(* C2.  Every request put into the channel is answered by the actor        *)
(* exactly once, with a success or a failure, never both and never         *)
(* neither, also when the actor task ends: a reply channel never holds     *)
(* more than one answer, it is empty only while its request is still in    *)
(* the channel or being serviced, and otherwise it holds the one answer    *)
(* (it is never closed without one).                                       *)
(***************************************************************************)
\* the request of replan r is still in the channel or being serviced
Pending(r) ==
    \/ \E j \in 1..Len(queue) : queue[j].owner = r /\ queue[j].seq = resp[r].seq
    \/ cur # None /\ unwrap_value(cur).owner = r /\ unwrap_value(cur).seq = resp[r].seq

C2_AnsweredExactlyOnce ==
    \A r \in Replans :
        resp[r].st # "none" =>
            /\ resp[r].sends <= 1
            /\ resp[r].st = "empty" => Pending(r) /\ resp[r].sends = 0
            /\ resp[r].st # "empty" => resp[r].st \in {"ok", "err"} /\ resp[r].sends = 1

(***************************************************************************)
(* C3.  A failed protocol call is delivered as a failed result to exactly  *)
(* the caller whose request was being serviced, and does not end the       *)
(* actor: every call that returns puts its result into the reply channel   *)
(* of the command in service and into no other, a call that breaks the     *)
(* connection is delivered as a failure, the actor is back at recv with    *)
(* the channel untouched, and the actor task never ends with a call's      *)
(* error (it ends only on its connect failure, before any call, or with    *)
(* Ok).                                                                    *)
(***************************************************************************)
\* the step ends the protocol call in service
CallReturns == apc = "call" /\ apc' # "call"

\* the step puts a failure into the reply channel of replan r
FailureDelivered(r) == resp[r].st = "empty" /\ resp'[r].st = "err"

C3_FailureDeliveredActorGoesOn ==
    /\ [](apc = "done" => \/ aresult = "Ok"
                          \/ aresult = "ConnectFault" /\ conn = "none")
    /\ [][CallReturns =>
            LET c == unwrap_value(cur) IN
            /\ apc' = "recv"
            /\ aresult' = "none"
            /\ queue' = queue
            /\ resp[c.owner].st = "empty" /\ resp[c.owner].seq = c.seq
            /\ resp'[c.owner].st \in {"ok", "err"}
            /\ resp'[c.owner].sends = 1
            /\ conn' = "broken" => resp'[c.owner].st = "err"
            /\ \A o \in Replans \ {c.owner} : resp'[o] = resp[o]]_vars
    /\ [][\A r \in Replans : FailureDelivered(r) =>
            /\ CallReturns
            /\ unwrap_value(cur).owner = r
            /\ replan[r].pc \in {"wait_tree", "exec_wait"}]_vars

\* after a call has failed and broken the connection, the actor is servicing a
\* later request
C3_Witness == conn = "broken" /\ apc = "call"

(***************************************************************************)
(* C4.  After a connection-level fault the actor stops and never issues    *)
(* another protocol call on that connection: no step taken with the        *)
(* connection broken starts a call.                                        *)
(***************************************************************************)
C4_NoCallAfterConnectionFault ==
    [][conn = "broken" => ~(apc = "recv" /\ apc' = "call")]_vars

(***************************************************************************)
(* C5, as claimed.  The actor is stopped only when every producer has      *)
(* dropped its submission handle: in every state where the actor task has  *)
(* ended no Sender is alive.                                               *)
(***************************************************************************)
C5_StoppedOnlyWhenQueueClosed == apc = "done" => ~senders_alive

(***************************************************************************)
(* C5, as amended.  The actor leaves its loop (returns Ok) only when the   *)
(* channel is empty and every Sender has been dropped; the actor task      *)
(* also ends while Senders are alive when its own connect fails, before    *)
(* it has serviced anything.  Either way, once the actor task has ended    *)
(* the channel is empty and stays so, and a submission does not block: it  *)
(* can be taken at once and fails with a SendError.                        *)
(***************************************************************************)
C5_StoppedAmended ==
    /\ [](apc = "done" /\ aresult = "Ok" => ~senders_alive)
    /\ [](apc = "done" /\ senders_alive => aresult = "ConnectFault" /\ conn = "none")
    /\ [](apc = "done" => queue = <<>> /\ cur = None)
    /\ [](apc = "done" =>
            \A r \in Replans : replan[r].pc = "send_tree" => ENABLED ReplanSendTree(r))
    /\ [][apc = "done" =>
            /\ queue' = queue
            /\ \A r \in Replans :
                  replan[r].pc = "send_tree" /\ replan'[r] # replan[r] =>
                      replan'[r].pc = "done" /\ replan'[r].result = "SendError"]_vars

\* the actor task has ended on its connect failure while the watcher still holds
\* its Sender, and a replan's submission has failed
C5_Witness ==
    /\ apc = "done"
    /\ senders_alive
    /\ \E r \in Replans : replan[r].result = "SendError"

(***************************************************************************)
(* C6.  The watcher triggers a replan for an event if and only if it is a  *)
(* Window event with change New, Close, Move or Floating, or a Workspace   *)
(* event with change Init, Empty or Move: the step that handles such an    *)
(* event spawns exactly one replan task, and the step that handles any     *)
(* other event spawns none and leaves the replans, the channel and the     *)
(* reply channels as they are; commands enter the channel only from        *)
(* replan tasks that a trigger has spawned.                                *)
(***************************************************************************)
QualifyingEvents ==
    {[type |-> "Window", change |-> c] : c \in {"New", "Close", "Move", "Floating"}}
    \cup {[type |-> "Workspace", change |-> c] : c \in {"Init", "Empty", "Move"}}

\* the step spawns replan task number ntriggers + 1, and only that
SpawnsOne ==
    /\ ntriggers' = ntriggers + 1
    /\ replan'[ntriggers'].pc = "send_tree"
    /\ \A r \in Replans \ {ntriggers'} : replan'[r] = replan[r]

C6_TriggerIffQualifying ==
    /\ [][\A e \in Events : WatcherEvent(e) =>
            /\ e \in QualifyingEvents => SpawnsOne
            /\ e \notin QualifyingEvents => UNCHANGED <<ntriggers, replan>>
            /\ UNCHANGED <<queue, resp>>]_vars
    /\ [][ntriggers' # ntriggers => \E e \in QualifyingEvents : WatcherEvent(e)]_vars
    /\ [][IsSend => LET c == queue'[Len(queue')] IN
                    c.owner \in 1..ntriggers /\ replan_alive(c.owner)]_vars

\* two events have been handled and exactly one of them has triggered a replan
C6_Witness == nevents = 2 /\ ntriggers = 1

(***************************************************************************)
(* C7.  Within one replan the GetTree is submitted first and its reply     *)
(* received before any RunCommand; then exactly one RunCommand is          *)
(* submitted per command of the plan, in plan order, each only after the   *)
(* reply to the previous request has been received; a failed or rejected   *)
(* RunCommand does not abort the replan.  In terms of the task's state:    *)
(* before the tree reply nothing but the GetTree has been sent; command k  *)
(* is sent with commands 1..k-1 sent before it, in order, and with no      *)
(* request of the task outstanding; and a replan that has computed a plan  *)
(* ends only with Ok, after the reply to its last command, having sent     *)
(* the whole plan.                                                         *)
(***************************************************************************)
\* the commands of replan r that are in the channel or in service
Outstanding(r) ==
    {queue[j] : j \in {i \in 1..Len(queue) : queue[i].owner = r}}
    \cup (IF cur # None /\ unwrap_value(cur).owner = r THEN {unwrap_value(cur)} ELSE {})

C7_ReplanOrder ==
    /\ [](\A r \in Replans :
            LET t == replan[r] IN
            /\ t.pc \in {"unborn", "send_tree", "done"} =>
                   Outstanding(r) = {} /\ resp[r].st = "none" /\ t.sent = <<>>
            /\ t.pc = "wait_tree" =>
                   /\ t.sent = <<>> /\ t.cmds = <<>>
                   /\ Outstanding(r) \subseteq {GetTree(r)}
                   /\ resp[r].st = "empty" <=> Outstanding(r) # {}
            /\ t.pc \in {"exec_send", "exec_wait"} => t.k \in 1..Len(t.cmds)
            /\ t.pc = "exec_send" =>
                   /\ t.sent = SubSeq(t.cmds, 1, t.k - 1)
                   /\ Outstanding(r) = {} /\ resp[r].st = "none"
            /\ t.pc = "exec_wait" =>
                   /\ t.sent = SubSeq(t.cmds, 1, t.k)
                   /\ Outstanding(r) \subseteq {RunCommand(r, t.k, t.cmds[t.k])}
                   /\ resp[r].st = "empty" <=> Outstanding(r) # {})
    /\ [][\A r \in Replans :
            replan[r].pc \in {"exec_send", "exec_wait"} /\ replan'[r].pc = "done" =>
                /\ replan[r].pc = "exec_wait"
                /\ replan[r].sent = replan[r].cmds
                /\ replan'[r].result = "Ok"]_vars

\* the first RunCommand of a two-command plan has failed (it broke the
\* connection) and the replan has submitted the second one
C7_Witness ==
    \E r \in Replans :
        /\ replan[r].pc = "exec_wait"
        /\ replan[r].k = 2
        /\ resp[r].st = "empty"
        /\ conn = "broken"

(***************************************************************************)
(* C8.  The claim is that replans can overlap: that a state is reachable   *)
(* in which a newer trigger's replan has submitted its GetTree while an    *)
(* older replan still has a RunCommand queued or not yet replied to.       *)
(* Overlap is that state.                                                  *)
(***************************************************************************)
\* replan r has a RunCommand in the channel or in service, not yet replied to
ExecutePending(r) == replan[r].pc = "exec_wait" /\ resp[r].st = "empty"

\* replan r has put its GetTree into the channel
FetchSubmitted(r) ==
    \/ replan[r].pc \in {"wait_tree", "exec_send", "exec_wait"}
    \/ replan[r].pc = "done" /\ replan[r].result # "SendError"

Overlap ==
    \E older, newer \in Replans :
        older < newer /\ ExecutePending(older) /\ FetchSubmitted(newer)

JoinReturns == wpc = "await_replan" /\ wpc' # "await_replan"

C9_SubmitFailureEndsWatcher ==
    /\ [][JoinReturns /\ replan[ntriggers].result \in {"SendError", "RecvError", "IoError"} =>
            wpc' = "done" /\ wresult' \notin {"none", "Ok"}]_vars
    /\ [](wpc = "done" => wresult # "none")

(***************************************************************************)
(* C10.  A connect failure at startup is fatal: once the watcher's or the  *)
(* actor's connect has failed, the process eventually exits (both tasks    *)
(* finish and main returns).                                               *)
(***************************************************************************)
C10_ConnectFailureExits ==
    (wresult = "ConnectFault" \/ aresult = "ConnectFault") ~> (main # "running")

(***************************************************************************)
(* C11.  A planner fault is local to one replan.  When the tree a replan   *)
(* has fetched has a root that is not of type Root, get_workspace_nodes    *)
(* panics: the replan task ends there, having put no RunCommand into the   *)
(* channel, and it never puts one in afterwards; the step ends neither the *)
(* watcher nor the actor, and the watcher's await of the task returns to   *)
(* the event stream, where a later replan runs as usual.                   *)
(***************************************************************************)
\* replan r receives, in this step, a tree whose root is not of type Root
FetchesNonRoot(r) ==
    /\ replan[r].pc = "wait_tree"
    /\ replan'[r].pc # "wait_tree"
    /\ resp[r].st = "ok"
    /\ unwrap_value(resp[r].val).node_type # "Root"

\* a command of replan r is in the channel or in service
HasRequest(r) ==
    \/ \E j \in 1..Len(queue) : queue[j].owner = r
    \/ cur # None /\ unwrap_value(cur).owner = r

C11_PlannerFaultLocal ==
    /\ [][\A r \in Replans : FetchesNonRoot(r) =>
              /\ replan'[r].pc = "done" /\ replan'[r].result = "Panic"
              /\ replan[r].sent = <<>> /\ ~HasRequest(r)'
              /\ wpc # "done" /\ wpc' = wpc
              /\ apc # "done" /\ apc' = apc]_vars
    /\ [](\A r \in Replans : replan[r].pc = "done" => ~HasRequest(r))
    /\ [][\A r \in Replans : replan[r].pc = "done" => replan'[r] = replan[r]]_vars
    /\ [][JoinReturns /\ replan[ntriggers].result = "Panic" =>
              wpc' = "next" /\ wresult' = "none" /\ apc' = apc]_vars

\* the first replan has panicked, the watcher has gone on, and the second replan
\* has put a RunCommand of its plan into the channel
C11_Witness ==
    /\ replan[1].pc = "done" /\ replan[1].result = "Panic"
    /\ replan[2].pc = "exec_wait" /\ replan[2].sent # <<>>
    /\ apc # "done" /\ wpc = "await_replan"

(***************************************************************************)
(* PlanSpec: the pure functions of the planner, applied to a layout tree   *)
(* drawn from PlanTrees.  One step applies get_workspace_rename_commands   *)
(* to the tree, or get_leaf_content_nodes to one of the tree's nodes, and  *)
(* records what the function returned.                                     *)
(***************************************************************************)
\* a node of NodeType::FloatingCon with the given children
FloatingCon(children) == Node("FloatingCon", None, None, None, children)

\* the num and name of the workspaces of PlanTrees: no num, num below 1,
\* numbered, numbered with a name that is already the planned one, numbered
\* without a name, and a number of two digits
WorkspaceHeads ==
    {<<None, Some("mail")>>, <<Some(0), Some("0")>>, <<Some(-1), Some("__i3_scratch")>>,
     <<Some(1), Some("1")>>, <<Some(2), Some("2: F")>>, <<Some(3), None>>,
     <<Some(12), Some("12: web")>>}

\* what a workspace of PlanTrees holds
WorkspaceContents ==
    {<<>>,
     <<Window("Firefox")>>,
     <<Window("Firefox"), Window("Firefox")>>,
     <<Window("Firefox"), Window("Code")>>,
     <<SplitCon(<<Window("Alacritty"), SplitCon(<<Window("Joplin"), Window("Alacritty")>>)>>),
       Window("Xterm")>>,
     <<Window("Xterm"), WindowNoClass, EmptyCon>>,
     <<FloatingCon(<<Window("Firefox")>>)>>,
     <<SplitCon(<<FloatingCon(<<Window("Code")>>), Window("Alacritty")>>)>>}

PlanWorkspaces ==
    {Workspace(h[1], h[2], c) : h \in WorkspaceHeads, c \in WorkspaceContents}

\* the workspaces of the trees with two workspaces
PairWorkspaces ==
    {Workspace(Some(1), Some("1"), <<Window("Firefox")>>),
     Workspace(Some(2), Some("2: F"), <<Window("Firefox")>>),
     Workspace(Some(3), Some("3: F"), <<Window("Alacritty"), Window("Code")>>),
     Workspace(None, Some("mail"), <<Window("Joplin")>>)}

\* two outputs, the workspace of the higher number on the first
TreeTwoOutputs ==
    Node("Root", Some("root"), None, None,
         <<Node("Output", Some("HDMI-1"), None, None,
                <<Node("Con", Some("content"), None, None,
                       <<Workspace(Some(4), Some("4"), <<Window("Code")>>)>>)>>),
           Node("Output", Some("eDP-1"), None, None,
                <<Node("Con", Some("content"), None, None,
                       <<Workspace(Some(1), Some("1: F"), <<Window("Firefox")>>)>>)>>)>>)

\* workspace 2, named "2", with one Firefox window
TreeOneFirefox == RootOf(<<Workspace(Some(2), Some("2"), <<Window("Firefox")>>)>>)

PlanTrees ==
    {RootOf(<<w>>) : w \in PlanWorkspaces}
    \cup {RootOf(<<a, b>>) : a, b \in PairWorkspaces}
    \cup {RootOf(<<>>), TreeTwoOutputs, TreeOneFirefox}
    \cup {Workspace(Some(1), Some("1"), <<Window("Firefox")>>)}
    \cup SnapshotTrees

RECURSIVE subtree(_)
RECURSIVE subtrees(_)
\* the nodes of the sequence ns and all nodes below them, each before its
\* children, children in their order
subtrees(ns) == IF ns = <<>> THEN <<>> ELSE subtree(Head(ns)) \o subtrees(Tail(ns))

\* the node and all nodes below it
subtree(node) == <<node>> \o subtrees(node.nodes)

PlanInit ==
    /\ ProgramInit
    /\ tree \in PlanTrees
    /\ plan = NotApplied

program_vars ==
    <<wpc, wresult, nevents, ntriggers, replan, apc, aresult, cur, conn, queue, resp, main>>

\* get_workspace_rename_commands(&tree)
PlanRenames ==
    /\ plan = NotApplied
    /\ \E out \in get_workspace_rename_commands(tree) :
          plan' = [fn |-> "get_workspace_rename_commands", arg |-> tree, out |-> out]
    /\ UNCHANGED <<program_vars, tree>>

\* get_leaf_content_nodes(node), for a node of the tree
LeafContentNodes ==
    /\ plan = NotApplied
    /\ \E i \in 1..Len(subtree(tree)) :
          plan' = [fn |-> "get_leaf_content_nodes", arg |-> subtree(tree)[i],
                   out |-> get_leaf_content_nodes(subtree(tree)[i])]
    /\ UNCHANGED <<program_vars, tree>>

PlanNext == PlanRenames \/ LeafContentNodes

PlanSpec == PlanInit /\ [][PlanNext]_vars

(***************************************************************************)
(* What the planner is to return, stated without the planner's functions.  *)
(***************************************************************************)
\* the plan returned by get_workspace_rename_commands, when it returned one
Returned == plan.fn = "get_workspace_rename_commands" /\ plan.out.kind = "ok"

\* the workspace nodes anywhere in the tree t, in document order
AllWorkspaces(t) == SelectSeq(subtree(t), LAMBDA n : n.node_type = "Workspace")

\* the workspace has a num and it is at least 1
Numbered(w) == w.num # None /\ w.num[1] >= 1

NumberedWorkspaces(t) == SelectSeq(AllWorkspaces(t), Numbered)

\* str(num)
Str ==
    (0 :> "0") @@ (1 :> "1") @@ (2 :> "2") @@ (3 :> "3") @@ (4 :> "4") @@ (5 :> "5")
    @@ (6 :> "6") @@ (7 :> "7") @@ (8 :> "8") @@ (9 :> "9") @@ (10 :> "10")
    @@ (11 :> "11") @@ (12 :> "12")

\* the labels of the lookup table
Labels == {"A", "J", "F", "C"}

\* the distinct labels of L, separated by single spaces, in every order
Spaced(L) ==
    CASE Cardinality(L) = 1 -> L
      [] Cardinality(L) = 2 -> {a \o " " \o b : a, b \in L} \ {a \o " " \o a : a \in L}
      [] Cardinality(L) = 3 ->
           {x[1] \o " " \o x[2] \o " " \o x[3] :
               x \in {y \in L \X L \X L : Cardinality({y[1], y[2], y[3]}) = 3}}
      [] OTHER ->
           {x[1] \o " " \o x[2] \o " " \o x[3] \o " " \o x[4] :
               x \in {y \in L \X L \X L \X L : Cardinality({y[1], y[2], y[3], y[4]}) = 4}}

\* the new name of workspace number n whose distinct labels are L
NewNames(n, L) == IF L = {} THEN {Str[n]} ELSE {Str[n] \o ": " \o l : l \in Spaced(L)}

\* every name a workspace of number n can be given
AnyNewNames(n) == UNION {NewNames(n, L) : L \in SUBSET Labels}

\* the text of the directive that renames old to new
Directive(old, new) == "rename workspace \"" \o old \o "\" to \"" \o new \o "\""

\* the directives that rename workspace w to a name of number n
DirectivesTo(w, n) == {Directive(w.name[1], new) : new \in AnyNewNames(n)}

(***************************************************************************)
(* C12.  The plan holds a directive for a workspace only if the            *)
(* workspace's num is present and at least 1: every directive of a plan    *)
(* renames a numbered workspace of the tree to a name of its number, there *)
(* are no more directives than numbered workspaces, no directive renames a *)
(* workspace whose num is absent, 0 or negative, and a tree without        *)
(* numbered workspaces yields the empty plan.                              *)
(***************************************************************************)
C12_OnlyNumberedWorkspaces ==
    Returned =>
        LET cmds == plan.out.cmds
            wss == AllWorkspaces(plan.arg)
        IN  /\ \A i \in 1..Len(cmds) :
                  \E j \in 1..Len(wss) :
                      Numbered(wss[j]) /\ cmds[i] \in DirectivesTo(wss[j], wss[j].num[1])
            /\ Len(cmds) <= Len(NumberedWorkspaces(plan.arg))
            /\ \A j \in 1..Len(wss) :
                  ~Numbered(wss[j]) =>
                      \A i \in 1..Len(cmds), n \in DOMAIN Str : cmds[i] \notin DirectivesTo(wss[j], n)
            /\ NumberedWorkspaces(plan.arg) = <<>> => cmds = <<>>

\* the plan of a tree whose only workspace has num 0 and holds a Firefox window
C12_Witness ==
    /\ Returned
    /\ plan.arg = RootOf(<<Workspace(Some(0), Some("0"), <<Window("Firefox")>>)>>)
    /\ plan.out.cmds = <<>>

(***************************************************************************)
(* C13.  The new name of a numbered workspace is str(num) when no leaf     *)
(* window under it has a class of the lookup table, and otherwise          *)
(* "{num}: " followed by the distinct labels of its classed leaf windows,  *)
(* separated by single spaces, each label once, in some order.  The leaf   *)
(* windows are the childless Containers below the workspace; the statement *)
(* is about the workspaces below which every node is a Container, as in    *)
(* the trees the window manager delivers (leaves below nodes of another    *)
(* type are the subject of C16).  The plan has one directive per numbered  *)
(* workspace.                                                              *)
(***************************************************************************)
\* the childless Containers anywhere below node, in document order
ChildlessContainers(node) ==
    SelectSeq(subtrees(node.nodes), LAMBDA n : n.node_type = "Con" /\ n.nodes = <<>>)

\* the labels of the classed leaf windows below w
ClassLabels(w) ==
    LET leaves == ChildlessContainers(w)
        classes == {leaves[i].window_properties[1].class[1] :
                      i \in {j \in 1..Len(leaves) :
                                /\ leaves[j].window_properties # None
                                /\ leaves[j].window_properties[1].class # None}}
    IN  {lookup[c] : c \in classes \cap DOMAIN lookup}

\* every node below w is a Container
OnlyContainers(w) ==
    \A i \in 1..Len(subtrees(w.nodes)) : subtrees(w.nodes)[i].node_type = "Con"

C14_NoDirectiveToSameName ==
    Returned =>
        \A i \in 1..Len(plan.out.cmds), j \in 1..Len(NumberedWorkspaces(plan.arg)) :
            LET w == NumberedWorkspaces(plan.arg)[j]
            IN  plan.out.cmds[i] # Directive(w.name[1], w.name[1])

(***************************************************************************)
(* C15.  The directives of a plan are in ascending order of workspace      *)
(* number: when directive i precedes directive j, the num of the workspace *)
(* i renames is not greater than the num of the workspace j renames, in    *)
(* whatever order the snapshot lists outputs, containers and workspaces.   *)
(***************************************************************************)
C15_AscendingByNumber ==
    Returned =>
        LET cmds == plan.out.cmds
            nws == NumberedWorkspaces(plan.arg)
        IN  \A i, j \in 1..Len(cmds) :
                i < j =>
                    \A a, b \in 1..Len(nws) :
                        /\ cmds[i] \in DirectivesTo(nws[a], nws[a].num[1])
                        /\ cmds[j] \in DirectivesTo(nws[b], nws[b].num[1])
                        => nws[a].num[1] <= nws[b].num[1]

(***************************************************************************)
(* C16.  get_leaf_content_nodes(node) returns every childless Container    *)
(* anywhere below node, each once, in depth-first document order, also     *)
(* when a childless Container lies below a node that is not a Container;   *)
(* a node without children yields the empty sequence.                      *)
(***************************************************************************)
C16_EveryChildlessContainer ==
    plan.fn = "get_leaf_content_nodes" =>
        /\ plan.out = ChildlessContainers(plan.arg)
        /\ plan.arg.nodes = <<>> => plan.out = <<>>

(***************************************************************************)
(* C17.  The planner fails only on a tree whose root is not of type Root:  *)
(* for every tree with a Root root it returns a plan, also when a numbered *)
(* workspace of the tree has no name.                                      *)
(***************************************************************************)
C17_RootTreeYieldsPlan ==
    plan.fn = "get_workspace_rename_commands" /\ plan.arg.node_type = "Root" =>
        plan.out.kind = "ok"

(***************************************************************************)
(* ConvergeSpec: the program connected to a window manager whose layout    *)
(* tree nobody else changes.  tree is the window manager's tree: get_tree  *)
(* answers with it and run_command of a rename command renames the         *)
(* workspace in it; both calls succeed.  The tasks are those of Spec.      *)
(***************************************************************************)
ConvergeTrees ==
    {RootOf(<<Workspace(Some(1), Some("1"), <<Window("Firefox")>>),
              Workspace(Some(2), Some("2: old"),
                        <<SplitCon(<<Window("Alacritty"), Window("Code")>>), Window("Code")>>)>>),
     RootOf(<<Workspace(Some(1), Some("1: F"), <<Window("Firefox")>>),
              Workspace(Some(3), Some("3"), <<>>),
              Workspace(None, Some("mail"), <<Window("Joplin")>>)>>),
     RootOf(<<Workspace(Some(12), Some("12: web"), <<Window("Firefox"), Window("Firefox")>>),
              Workspace(Some(2), Some("2"), <<Window("Xterm")>>)>>)}

\* the names of the workspaces of the tree
workspace_names(t) ==
    {AllWorkspaces(t)[i].name[1] :
        i \in {j \in 1..Len(AllWorkspaces(t)) : AllWorkspaces(t)[j].name # None}}

\* how the window manager reads a payload: as the command that renames the
\* workspace named old to new, a name that begins with the number num
wm_parse(t, payload) ==
    {c \in UNION {{[old |-> o, num |-> n, new |-> w] :
                      o \in workspace_names(t), w \in AnyNewNames(n)} : n \in DOMAIN Str} :
        payload = Directive(c.old, c.new)}

RECURSIVE wm_rename(_, _)
RECURSIVE wm_rename_all(_, _)
wm_rename_all(ns, c) ==
    IF ns = <<>> THEN <<>> ELSE <<wm_rename(Head(ns), c)>> \o wm_rename_all(Tail(ns), c)

\* the tree with the workspace named c.old renamed: its name becomes c.new, its
\* num the number c.new begins with
wm_rename(node, c) ==
    IF node.node_type = "Workspace" /\ node.name = Some(c.old)
    THEN [node EXCEPT !.name = Some(c.new), !.num = Some(c.num)]
    ELSE [node EXCEPT !.nodes = wm_rename_all(node.nodes, c)]

\* i3.run_command(payload) on the tree t: the command is refused when it names
\* no workspace or a new name another workspace has
wm_run_command(t, payload) ==
    IF wm_parse(t, payload) = {} THEN [success |-> FALSE, tree |-> t]
    ELSE LET c == CHOOSE x \in wm_parse(t, payload) : TRUE
         IN  IF c.new # c.old /\ c.new \in workspace_names(t)
             THEN [success |-> FALSE, tree |-> t]
             ELSE [success |-> TRUE, tree |-> wm_rename(t, c)]

ConvergeInit ==
    /\ ProgramInit
    /\ tree \in ConvergeTrees
    /\ plan = NotApplied

\* the protocol call returns with the window manager's answer, which is sent
\* to the command's Responder; the loop goes back to rx.recv()
ActorReplyWm ==
    /\ apc = "call"
    /\ IF unwrap_value(cur).kind = "GetTree"
       THEN /\ resp' = respond(resp, unwrap_value(cur), Ok(tree))
            /\ UNCHANGED tree
       ELSE LET out == wm_run_command(tree, unwrap_value(cur).payload)
            IN  /\ resp' = respond(resp, unwrap_value(cur), Ok(<<[success |-> out.success]>>))
                /\ tree' = out.tree
    /\ cur' = None
    /\ apc' = "recv"
    /\ UNCHANGED <<watcher_vars, ntriggers, replan, aresult, conn, queue, main, plan>>

ConvergeNext ==
    \/ WatcherConnect
    \/ WatcherSubscribe
    \/ \E e \in Events : WatcherEvent(e)
    \/ WatcherStreamEnd
    \/ WatcherStreamError
    \/ WatcherJoin
    \/ \E r \in Replans : ReplanSendTree(r)
    \/ \E r \in Replans : ReplanRecvTree(r)
    \/ \E r \in Replans : ReplanSendCommand(r)
    \/ \E r \in Replans : ReplanRecvCommand(r)
    \/ ActorConnect
    \/ ActorRecv
    \/ ActorReplyWm
    \/ ActorRecvNone
    \/ MainJoin

ConvergeSpec == ConvergeInit /\ [][ConvergeNext]_vars

(***************************************************************************)
(* C18.  Renaming converges.  Nobody else changes the window manager's     *)
(* tree, the workspace names are pairwise distinct and every rename is     *)
(* accepted (ConvergeSpec).  Once a replan has completed, every numbered   *)
(* workspace bears a name planned for it; and a later replan plans for     *)
(* every numbered workspace the name it already has.                       *)
(***************************************************************************)
\* replan r has run to its end: tree fetched, every rename executed
Completed(r) == replan[r].pc = "done" /\ replan[r].result = "Ok"

\* every numbered workspace of the tree bears a name planned for it
Settled ==
    \A j \in 1..Len(NumberedWorkspaces(tree)) :
        LET w == NumberedWorkspaces(tree)[j]
        IN  w.name # None /\ w.name[1] \in NewNames(w.num[1], ClassLabels(w))

\* the commands of replan r that it has not put into the channel yet
Unsent(r) ==
    {i \in 1..Len(replan[r].cmds) :
        i > replan[r].k \/ (i = replan[r].k /\ replan[r].pc = "exec_send")}

\* replan r has a plan, made after an older replan has completed
LaterPlan(r) ==
    /\ replan[r].pc \in {"exec_send", "exec_wait"}
    /\ \E older \in Replans : older < r /\ Completed(older)

\* a rename command in service is one the window manager accepts
Accepted ==
    cur # None /\ cur[1].kind = "RunCommand" => wm_run_command(tree, cur[1].payload).success

(***************************************************************************)
(* C18, as claimed: a later replan changes no name.                        *)
(***************************************************************************)
C18_FixedPoint ==
    /\ (\E r \in Replans : Completed(r)) => Settled
    /\ \A r \in Replans :
          LaterPlan(r) =>
              \A i \in Unsent(r) :
                  \E n \in workspace_names(tree) : replan[r].cmds[i] = Directive(n, n)

(***************************************************************************)
(* C18, as amended.  Once a replan has completed, every numbered workspace *)
(* bears a name planned for it, and keeps one from then on; a later replan *)
(* plans for every numbered workspace a name of the same number and the    *)
(* same labels, which is the name the workspace has when it holds at most  *)
(* one distinct label and may differ from it in the order of the labels    *)
(* otherwise.  Every rename is accepted.                                   *)
(***************************************************************************)
C18_ConvergesUpToLabelOrder ==
    /\ (\E r \in Replans : Completed(r)) => Settled
    /\ Accepted
    /\ \A r \in Replans :
          LaterPlan(r) =>
              \A i \in Unsent(r) :
                  \E j \in 1..Len(NumberedWorkspaces(tree)) :
                      LET w == NumberedWorkspaces(tree)[j]
                          L == ClassLabels(w)
                      IN  /\ replan[r].cmds[i] \in
                                 {Directive(w.name[1], new) : new \in NewNames(w.num[1], L)}
                          /\ Cardinality(L) <= 1 =>
                                 replan[r].cmds[i] = Directive(w.name[1], w.name[1])

\* the second replan, made after the first has renamed workspace 2 to "2: A C",
\* is about to rename it to "2: C A"
C18_Witness ==
    /\ Completed(1)
    /\ replan[2].pc = "exec_send"
    /\ replan[2].cmds[replan[2].k] = "rename workspace \"2: A C\" to \"2: C A\""
    /\ "2: A C" \in workspace_names(tree)

(***************************************************************************)
(* C19.  Triggers are neither dropped, coalesced nor reordered.  Every     *)
(* qualifying event the watcher handles spawns one replan of its own; once *)
(* the actor is connected, the GetTree of every spawned replan is sent,    *)
(* serviced and answered, and the answer reaches the replan; a replan      *)
(* sends GetTree once; and the GetTree of a replan is in the channel or in *)
(* service only when the replans of all earlier events have finished and   *)
(* no replan of a later event exists.  Checked under LiveSpec.             *)
(***************************************************************************)
\* the GetTree of replan r has made its round trip: the answer has reached r
TreeFetched(r) ==
    \/ replan[r].pc \in {"exec_send", "exec_wait"}
    \/ replan[r].pc = "done" /\ replan[r].result \in {"Ok", "IoError", "Panic"}

\* the GetTree of replan r is in the channel or in service
GetTreePending(r) ==
    \/ \E j \in 1..Len(queue) : queue[j] = GetTree(r)
    \/ cur = Some(GetTree(r))

C19_EveryTriggerFetchesInOrder ==
    /\ [][\A e \in QualifyingEvents : WatcherEvent(e) => SpawnsOne]_vars
    /\ \A r \in Replans : (replan[r].pc = "send_tree" /\ conn # "none") ~> TreeFetched(r)
    /\ [][\A r \in Replans :
              replan'[r].pc = "send_tree" => replan[r].pc \in {"unborn", "send_tree"}]_vars
    /\ [](\A r \in Replans :
              GetTreePending(r) =>
                  /\ replan[r].pc = "wait_tree"
                  /\ \A older \in Replans : older < r => replan[older].pc = "done"
                  /\ \A newer \in Replans : newer > r => replan[newer].pc = "unborn")

\* two qualifying events have been handled and each one's replan has its tree
C19_Witness ==
    /\ nevents = 2 /\ ntriggers = 2 /\ conn = "up"
    /\ replan[1].pc = "done" /\ replan[1].result = "Ok"
    /\ replan[2].pc = "exec_send"

(***************************************************************************)
(* C20.  Clean shutdown on the end of the events.  Once the event stream   *)
(* has ended or has yielded an error, the watcher task has finished; then  *)
(* every Sender is dropped, the actor leaves its loop and main returns.    *)
(* When the watcher finishes no replan task is left, no request is in the  *)
(* channel or in service and no reply is awaited; the actor leaves its     *)
(* loop with Ok only on an empty channel; and main returns only when both  *)
(* tasks have finished.  Checked under LiveSpec.                           *)
(***************************************************************************)
\* the watcher has left its loop because the stream ended or yielded an error
StreamOver == wpc = "done" /\ wresult \in {"Ok", "StreamFault"}

\* the process has terminated, all tasks finished and all handles dropped
Terminated ==
    /\ main # "running"
    /\ wpc = "done" /\ apc = "done"
    /\ \A r \in Replans : ~replan_alive(r)
    /\ queue = <<>> /\ cur = None

C20_CleanShutdown ==
    /\ StreamOver ~> Terminated
    /\ [](StreamOver =>
            /\ \A r \in Replans : ~replan_alive(r) /\ resp[r].st \notin {"empty"}
            /\ queue = <<>> /\ cur = None)
    /\ [][apc' = "done" /\ apc # "done" /\ aresult' = "Ok" => queue = <<>> /\ ~senders_alive]_vars
    /\ [](main # "running" => wpc = "done" /\ apc = "done")

\* the stream has ended after two replans and main has returned Ok
C20_Witness ==
    /\ main = "exit_ok" /\ wresult = "Ok" /\ aresult = "Ok"
    /\ ntriggers = 2 /\ replan[2].result = "Ok"

====
